---- MODULE Spec2Model ----
(***************************************************************************)
(* Model of public/components/custom_panels/helpers/utils.tsx: the panel   *)
(* helpers that validate user input, rewrite PPL query text and fetch the  *)
(* query response of a visualization.                                      *)
(*                                                                         *)
(* Strings are sequences of tokens.  A token is either one character       *)
(* (" ", "|", "=", ",", ")", ".", "a", "b", "x", "'") or an atom standing  *)
(* for a fixed run of characters ("source", "where", "span(", "and", ">=", *)
(* "<=", an interval such as "1d", a formatted date).                      *)
(***************************************************************************)
EXTENDS Integers, Sequences, FiniteSets, TLC

VARIABLES
    fn,                 \* the helper this run exercises
    args,               \* its arguments
    ret,                \* what the call produced: none yet, a return or a throw
    toasts,             \* the calls made to the setToast callback, in order
    isLoading,          \* React state behind setIsLoading
    isError,            \* React state behind setIsError
    visualizationData,  \* React state behind setVisualizationData
    inv,                \* the getQueryResponse invocations made so far
    fetchCalls,         \* the calls made to pplService.fetch, in order
    running,            \* the invocation whose promise reactions are being run
                        \* (i for getQueryResponse invocation i, -r for
                        \* renderSavedVisualization call r), or 0
    visualizationTitle,     \* React state behind setVisualizationTitle
    visualizationType,      \* React state behind setVisualizationType
    visualizationMetaData,  \* React state behind setVisualizationMetaData
    render              \* the renderSavedVisualization calls made so far

vars == <<fn, args, ret, toasts, isLoading, isError, visualizationData,
          inv, fetchCalls, running, visualizationTitle, visualizationType,
          visualizationMetaData, render>>

pureVars == <<fn, args, ret, toasts>>
asyncVars == <<isLoading, isError, visualizationData, inv, fetchCalls, running>>
renderVars == <<visualizationTitle, visualizationType, visualizationMetaData, render>>

----------------------------------------------------------------------------
(* Bounds of the model *)

MaxNameLen == 52
MaxQueryLen == 5
MaxFilterLen == 4
MaxSegs == 3
MaxMoment == 3
MaxInv == 2

----------------------------------------------------------------------------
(* Results of a call *)

None == [kind |-> "none"]
Return(v) == [kind |-> "return", value |-> v]
Throw(e) == [kind |-> "throw", error |-> e]

Max(S) == CHOOSE x \in S : \A y \in S : y <= x
Min(S) == CHOOSE x \in S : \A y \in S : x <= y

Strings(alphabet, n) == UNION {[1..k -> alphabet] : k \in 0..n}

RECURSIVE Concat(_)
Concat(ss) == IF ss = <<>> THEN <<>> ELSE Head(ss) \o Concat(Tail(ss))

----------------------------------------------------------------------------
(* isNameValid *)

NameLimit == 50

\* isNameValid with the upper limit taken inclusively
isNameValid_Inclusive(name) ==
    IF Len(name) > NameLimit \/ Len(name) = 0 THEN FALSE ELSE TRUE

isNameValid(name) ==
    IF Len(name) >= NameLimit \/ Len(name) = 0 THEN FALSE ELSE TRUE

----------------------------------------------------------------------------
(* setToast: the callback the validators report through.  A call is        *)
(* recorded with the four arguments it was given.                          *)

Undefined == "undefined"

setToast(log, title, color, text, side) ==
    Append(log, [title |-> title, color |-> color, text |-> text, side |-> side])

----------------------------------------------------------------------------
(* isDateValid.  start and end are Moments or undefined; JavaScript's <    *)
(* compares Moments by valueOf() and is false when an operand is           *)
(* undefined (NaN).                                                        *)

Moment(v) == [kind |-> "moment", v |-> v]
UndefinedDate == [kind |-> "undefined", v |-> 0]

JsLessThan(a, b) ==
    IF a.kind = "undefined" \/ b.kind = "undefined" THEN FALSE ELSE a.v < b.v

\* isDateValid rejecting an empty range and dropping the side argument
isDateValid_Strict(start, end, log, side) ==
    IF ~JsLessThan(start, end)
    THEN [value |-> FALSE,
          toasts |-> setToast(log, "Time range entered is invalid", "danger",
                              Undefined, Undefined)]
    ELSE [value |-> TRUE, toasts |-> log]

\* [value, toasts]: the returned boolean and the toast log after the call
isDateValid(start, end, log, side) ==
    IF JsLessThan(end, start)
    THEN [value |-> FALSE,
          toasts |-> setToast(log, "Time range entered is invalid", "danger",
                              Undefined, side)]
    ELSE [value |-> TRUE, toasts |-> log]

----------------------------------------------------------------------------
(* Regular expressions over token strings *)

\* \s* at position i: the length of the run of whitespace starting there
RECURSIVE WsRun(_, _)
WsRun(s, i) == IF i <= Len(s) /\ s[i] = " " THEN 1 + WsRun(s, i + 1) ELSE 0

\* [^|\s]+ at position i: the length of the run of tokens that are neither
\* a pipe nor whitespace
RECURSIVE IdentRun(_, _)
IdentRun(s, i) ==
    IF i <= Len(s) /\ s[i] \notin {" ", "|"} THEN 1 + IdentRun(s, i + 1) ELSE 0

NoMatch == [matched |-> FALSE, index |-> 0, len |-> 0]
MatchAt(i, n) == [matched |-> TRUE, index |-> i, len |-> n]

\* The text of a match, as match()[0] gives it
MatchText(s, m) == SubSeq(s, m.index, m.index + m.len - 1)

\* String.prototype.replace(regexp, replacement) for a regexp without the g
\* flag and a replacement without $ patterns: the first match is replaced
ReplaceMatch(s, m, replacement) ==
    IF ~m.matched THEN s
    ELSE SubSeq(s, 1, m.index - 1) \o replacement
         \o SubSeq(s, m.index + m.len, Len(s))

\* PPL_INDEX_REGEX (common/constants/shared): the source clause
\* `source = <identifier>`, whitespace allowed around the equals sign, the
\* identifier running up to the next whitespace or pipe; anchored at the
\* start of the query.
PPL_INDEX_REGEX(s) ==
    IF Len(s) = 0 \/ s[1] # "source" THEN NoMatch
    ELSE LET e == 2 + WsRun(s, 2) IN
         IF e > Len(s) \/ s[e] # "=" THEN NoMatch
         ELSE LET k == e + 1 + WsRun(s, e + 1)
                  r == IdentRun(s, k)
              IN  IF r = 0 THEN NoMatch ELSE MatchAt(1, k + r - 1)

\* PPL_WHERE_CLAUSE_REGEX (common/constants/shared): the query begins with
\* the keyword where
PPL_WHERE_CLAUSE_REGEX(s) ==
    IF Len(s) >= 2 /\ s[1] = "where" /\ s[2] = " "
    THEN MatchAt(1, 1 + WsRun(s, 2))
    ELSE NoMatch

----------------------------------------------------------------------------
(* isPPLFilterValid *)

checkIndexExists(query) == PPL_INDEX_REGEX(query).matched

checkWhereClauseExists(query) == PPL_WHERE_CLAUSE_REGEX(query).matched

\* isPPLFilterValid without the where-clause check
isPPLFilterValid_NoWhereCheck(query, log) ==
    IF checkIndexExists(query)
    THEN [value |-> FALSE,
          toasts |-> setToast(log, "Please remove index from PPL Filter",
                              "danger", Undefined, Undefined)]
    ELSE [value |-> TRUE, toasts |-> log]

\* [value, toasts]
isPPLFilterValid(query, log) ==
    IF checkIndexExists(query)
    THEN [value |-> FALSE,
          toasts |-> setToast(log, "Please remove index from PPL Filter",
                              "danger", Undefined, Undefined)]
    ELSE IF query # <<>> /\ ~checkWhereClauseExists(query)
    THEN [value |-> FALSE,
          toasts |-> setToast(log, "PPL filters should start with a where clause",
                              "danger", Undefined, Undefined)]
    ELSE [value |-> TRUE, toasts |-> log]

----------------------------------------------------------------------------
(* updateQuerySpanInterval *)

\* The tokens that are one character: what the regular expression's . matches
SingleChars == {" ", "|", "=", ",", ")", ".", "a", "b", "x", "'"}

\* One character of the timestamp field, read as a regular expression (the
\* field is interpolated unescaped), against one token of the query
PatternCharMatches(p, c) == IF p = "." THEN c \in SingleChars ELSE p = c

FieldPatternMatchesAt(s, field, i) ==
    /\ i + Len(field) - 1 <= Len(s)
    /\ \A k \in 1..Len(field) : PatternCharMatches(field[k], s[i + k - 1])

\* The first ")" at or after position i, or 0
RECURSIVE FirstClose(_, _)
FirstClose(s, i) ==
    IF i > Len(s) THEN 0 ELSE IF s[i] = ")" THEN i ELSE FirstClose(s, i + 1)

\* The position of the "," that `\s*,` reaches after the field ended before j
CommaAfter(s, j) ==
    LET c == j + WsRun(s, j) IN IF c <= Len(s) /\ s[c] = "," THEN c ELSE 0

\* new RegExp(`span\\(\\s*${timestampField}\\s*,(.*?)\\)`) tried at position i:
\* the position of the closing ")" of the match, or 0.  The first \s* is
\* greedy and gives whitespace back while the rest does not match; (.*?) is
\* lazy and stops at the first ")".
SpanMatchEnd(s, field, i) ==
    IF i > Len(s) \/ s[i] # "span(" THEN 0
    ELSE LET ok(k) == /\ FieldPatternMatchesAt(s, field, i + 1 + k)
                      /\ CommaAfter(s, i + 1 + k + Len(field)) # 0
                      /\ FirstClose(s, CommaAfter(s, i + 1 + k + Len(field)) + 1) # 0
             ks == {k \in 0..WsRun(s, i + 1) : ok(k)}
         IN  IF ks = {} THEN 0
             ELSE FirstClose(s, CommaAfter(s, i + 1 + Max(ks) + Len(field)) + 1)

SpanRegExp(s, field) ==
    LET starts == {i \in 1..Len(s) : SpanMatchEnd(s, field, i) # 0} IN
    IF starts = {} THEN NoMatch
    ELSE MatchAt(Min(starts), SpanMatchEnd(s, field, Min(starts)) - Min(starts) + 1)

updateQuerySpanInterval(query, timestampField, spanParam) ==
    ReplaceMatch(query, SpanRegExp(query, timestampField),
                 <<"span(">> \o timestampField \o <<",">> \o spanParam \o <<")">>)

----------------------------------------------------------------------------
(* convertDateTime.  Time is counted in hours; dateMath.parse resolves a    *)
(* date-math expression against the clock, or gives undefined; the end of   *)
(* a range is parsed with roundUp.                                          *)

NowRef == 36
DayLen == 24

DateMathParse(datetime, roundUp) ==
    CASE datetime = "now"    -> Moment(NowRef)
      [] datetime = "now-1d" -> Moment(NowRef - DayLen)
      [] datetime = "now/d"  ->
            IF roundUp THEN Moment((NowRef \div DayLen) * DayLen + DayLen - 1)
            ELSE Moment((NowRef \div DayLen) * DayLen)
      [] OTHER -> UndefinedDate

\* returnTime.utc().format(PPL_DATE_FORMAT)
FormatMoment(m) == "T" \o ToString(m.v)

\* formatted = true
convertDateTime(datetime, isStart) ==
    LET returnTime == IF isStart THEN DateMathParse(datetime, FALSE)
                      ELSE DateMathParse(datetime, TRUE)
    IN  IF returnTime.kind = "undefined"
        THEN Throw("TypeError")
        ELSE Return(FormatMoment(returnTime))

----------------------------------------------------------------------------
(* queryAccumulator *)

\* queryAccumulator putting the panel filter before the time filter
queryAccumulator_FilterFirst(originalQuery, timestampField, startTime, endTime, panelFilterQuery) ==
    LET indexMatchArray == PPL_INDEX_REGEX(originalQuery) IN
    IF ~indexMatchArray.matched THEN Throw("index not found in Query")
    ELSE
    LET indexPartOfQuery == MatchText(originalQuery, indexMatchArray)
        filterPartOfQuery == ReplaceMatch(originalQuery, indexMatchArray, <<>>)
        formattedStart == convertDateTime(startTime, TRUE)
        formattedEnd == convertDateTime(endTime, FALSE)
    IN
    IF formattedStart.kind = "throw" THEN formattedStart
    ELSE IF formattedEnd.kind = "throw" THEN formattedEnd
    ELSE
    LET timeQueryFilter ==
            <<" ", "|", " ", "where", " ">> \o timestampField
            \o <<" ", ">=", " ", "'", formattedStart.value, "'", " ", "and", " ">>
            \o timestampField
            \o <<" ", "<=", " ", "'", formattedEnd.value, "'">>
        pplFilterQuery ==
            IF panelFilterQuery = <<>> THEN <<>>
            ELSE <<" ", "|", " ">> \o panelFilterQuery
    IN  Return(indexPartOfQuery \o pplFilterQuery \o timeQueryFilter
               \o filterPartOfQuery)

queryAccumulator(originalQuery, timestampField, startTime, endTime, panelFilterQuery) ==
    LET indexMatchArray == PPL_INDEX_REGEX(originalQuery) IN
    IF ~indexMatchArray.matched THEN Throw("index not found in Query")
    ELSE
    LET indexPartOfQuery == MatchText(originalQuery, indexMatchArray)
        filterPartOfQuery == ReplaceMatch(originalQuery, indexMatchArray, <<>>)
        formattedStart == convertDateTime(startTime, TRUE)
        formattedEnd == convertDateTime(endTime, FALSE)
    IN
    IF formattedStart.kind = "throw" THEN formattedStart
    ELSE IF formattedEnd.kind = "throw" THEN formattedEnd
    ELSE
    LET timeQueryFilter ==
            <<" ", "|", " ", "where", " ">> \o timestampField
            \o <<" ", ">=", " ", "'", formattedStart.value, "'", " ", "and", " ">>
            \o timestampField
            \o <<" ", "<=", " ", "'", formattedEnd.value, "'">>
        pplFilterQuery ==
            IF panelFilterQuery = <<>> THEN <<>>
            ELSE <<" ", "|", " ">> \o panelFilterQuery
    IN  Return(indexPartOfQuery \o timeQueryFilter \o pplFilterQuery
               \o filterPartOfQuery)

----------------------------------------------------------------------------
(* The inputs the helpers are run on *)

Names == {[i \in 1..n |-> "a"] : n \in 0..MaxNameLen}

DateValues == {Moment(v) : v \in 0..MaxMoment} \cup {UndefinedDate}

Sides == {"left", "right", Undefined}

FilterAlphabet == {"source", "=", " ", "|", "a", "where"}

QueryAlphabet == {"source", "=", " ", "|", "a"}

TimeExprs == {"now-1d", "now/d", "now", ""}

PanelFilters == {<<>>, <<"where", " ", "a">>}

TimestampFields == {<<"a">>, <<"a", ".", "b">>}

SpanParams == {<<"1h">>, <<"1d">>}

\* The pieces span queries are put together from: whole span directives on
\* the fields a, a.b, axb and b, with and without whitespace, and single
\* tokens
SpanSegs ==
    { <<"span(", "a", ",", "1d", ")">>,
      <<"span(", " ", "a", " ", ",", " ", "1d", ")">>,
      <<"span(", "a", ".", "b", ",", "1d", ")">>,
      <<"span(", "a", "x", "b", ",", "1d", ")">>,
      <<"span(", "b", ",", "1d", ")">>,
      <<" ">>, <<"|">>, <<"a">>, <<"span(">>, <<",">>, <<")">> }

SpanQueries ==
    UNION { {Concat(ss) : ss \in [1..k -> SpanSegs]} : k \in 0..MaxSegs }

\* {} as SavedVisualization, and the metadata state before it is first set
EmptyVisualization ==
    [id |-> Undefined, name |-> Undefined, type |-> Undefined,
     query |-> <<>>, timeField |-> <<>>]

RenderIdle ==
    /\ visualizationTitle = ""
    /\ visualizationType = ""
    /\ visualizationMetaData = EmptyVisualization
    /\ render = <<>>

AsyncIdle ==
    /\ isLoading = FALSE
    /\ isError = [errorMessage |-> Undefined, errorDetails |-> Undefined]
    /\ visualizationData = "initial"
    /\ inv = <<>>
    /\ fetchCalls = <<>>
    /\ running = 0

InitPure ==
    /\ \/ fn = "isNameValid" /\ args \in [name : Names]
       \/ fn = "isDateValid"
          /\ args \in [start : DateValues, end : DateValues, side : Sides]
       \/ fn = "isPPLFilterValid"
          /\ args \in [query : Strings(FilterAlphabet, MaxFilterLen)]
       \/ fn = "updateQuerySpanInterval"
          /\ args \in [query : SpanQueries, timestampField : TimestampFields,
                       spanParam : SpanParams]
       \/ fn = "queryAccumulator"
          /\ args \in [originalQuery : Strings(QueryAlphabet, MaxQueryLen),
                       timestampField : TimestampFields,
                       startTime : TimeExprs, endTime : TimeExprs,
                       panelFilterQuery : PanelFilters]
    /\ ret = None
    /\ toasts = <<>>
    /\ AsyncIdle
    /\ RenderIdle

Call_isNameValid ==
    /\ fn = "isNameValid" /\ ret = None
    /\ ret' = Return(isNameValid(args.name))
    /\ UNCHANGED <<fn, args, toasts>>
    /\ UNCHANGED asyncVars
    /\ UNCHANGED renderVars

Call_isDateValid ==
    /\ fn = "isDateValid" /\ ret = None
    /\ LET r == isDateValid(args.start, args.end, toasts, args.side) IN
       /\ ret' = Return(r.value)
       /\ toasts' = r.toasts
    /\ UNCHANGED <<fn, args>>
    /\ UNCHANGED asyncVars
    /\ UNCHANGED renderVars

Call_isPPLFilterValid ==
    /\ fn = "isPPLFilterValid" /\ ret = None
    /\ LET r == isPPLFilterValid(args.query, toasts) IN
       /\ ret' = Return(r.value)
       /\ toasts' = r.toasts
    /\ UNCHANGED <<fn, args>>
    /\ UNCHANGED asyncVars
    /\ UNCHANGED renderVars

Call_updateQuerySpanInterval ==
    /\ fn = "updateQuerySpanInterval" /\ ret = None
    /\ ret' = Return(updateQuerySpanInterval(args.query, args.timestampField,
                                             args.spanParam))
    /\ UNCHANGED <<fn, args, toasts>>
    /\ UNCHANGED asyncVars
    /\ UNCHANGED renderVars

Call_queryAccumulator ==
    /\ fn = "queryAccumulator" /\ ret = None
    /\ ret' = queryAccumulator(args.originalQuery, args.timestampField,
                               args.startTime, args.endTime, args.panelFilterQuery)
    /\ UNCHANGED <<fn, args, toasts>>
    /\ UNCHANGED asyncVars
    /\ UNCHANGED renderVars

NextPure ==
    \/ Call_isNameValid
    \/ Call_isDateValid
    \/ Call_isPPLFilterValid
    \/ Call_updateQuerySpanInterval
    \/ Call_queryAccumulator

SpecPure == InitPure /\ [][NextPure]_vars

----------------------------------------------------------------------------
(* getQueryResponse and pplServiceRequestor.                                *)
(*                                                                          *)
(* getQueryResponse runs synchronously up to the call of pplService.fetch   *)
(* and returns; the request settles later, and the reactions chained on it  *)
(* (.then, .catch, .finally, the await) then run one after the other as     *)
(* promise jobs, before any other task.                                     *)

NoError == [errorMessage |-> Undefined, errorDetails |-> Undefined]
ErrorMessage(m) == [errorMessage |-> m, errorDetails |-> Undefined]

\* What getQueryResponse is called with
AsyncQueries == { <<"source", "=", "a", "|", "a">>, <<"|", "a">> }
AsyncStartTimes == {"now-1d", ""}
AsyncEndTimes == {"now"}
AsyncFilters == { <<"where", " ", "a">> }
AsyncFields == { <<"a">> }

\* How the request can settle.  A rejection carries an error whose
\* body.message is the JSON text of {error: {reason, details}} ("reason"),
\* the same with an empty reason ("noreason"), a text that is not JSON
\* ("unparseable") or that has no body at all ("nobody").
ErrorShapes == {"reason", "noreason", "unparseable", "nobody"}

Outcomes(i) ==
    {[kind |-> "resolve", value |-> "rows" \o ToString(i)],
     [kind |-> "resolve", value |-> Undefined]}
    \cup {[kind |-> "reject", value |-> sh] : sh \in ErrorShapes}

Unsettled == [kind |-> "none", value |-> Undefined]

\* One invocation: its query, where it stands, how its request settled,
\* whether the promise chain is rejected, what it passed to each setter, and
\* whether a rejected promise left pplServiceRequestor
Invocation(query, pc, setLoading, setError) ==
    [query |-> query, pc |-> pc, outcome |-> Unsettled, rejected |-> FALSE,
     setLoading |-> setLoading, setError |-> setError, setData |-> <<>>,
     escaped |-> FALSE]

InitAsync ==
    /\ fn = "getQueryResponse"
    /\ args = <<>>
    /\ ret = None
    /\ toasts = <<>>
    /\ AsyncIdle
    /\ RenderIdle

\* What a call of getQueryResponse does to the state behind the setters
\* and to pplService, whoever makes the call
QueryResponseEffect(query, startTime, endTime, filterQuery, timestampField) ==
    LET finalQuery == queryAccumulator(query, timestampField, startTime,
                                       endTime, filterQuery)
    IN  IF finalQuery.kind = "throw"
        THEN /\ isLoading' = FALSE
             /\ isError' = ErrorMessage("Issue in building final query")
             /\ inv' = Append(inv, Invocation(query, "done", <<TRUE, FALSE>>,
                           <<NoError, ErrorMessage("Issue in building final query")>>))
             /\ UNCHANGED fetchCalls
        ELSE /\ isLoading' = TRUE
             /\ isError' = NoError
             /\ inv' = Append(inv, Invocation(query, "pending", <<TRUE>>,
                                              <<NoError>>))
             /\ fetchCalls' = Append(fetchCalls,
                    [inv |-> Len(inv) + 1, query |-> finalQuery.value,
                     format |-> "jdbc"])

\* getQueryResponse with a catch block that forgets to clear the loading flag
GetQueryResponse_StillLoading(query, startTime, endTime, filterQuery, timestampField) ==
    /\ running = 0
    /\ Len(inv) < MaxInv
    /\ LET finalQuery == queryAccumulator(query, timestampField, startTime,
                                          endTime, filterQuery)
       IN  IF finalQuery.kind = "throw"
           THEN /\ isLoading' = TRUE
                /\ isError' = ErrorMessage("Issue in building final query")
                /\ inv' = Append(inv, Invocation(query, "done", <<TRUE>>,
                              <<NoError, ErrorMessage("Issue in building final query")>>))
                /\ UNCHANGED fetchCalls
           ELSE /\ isLoading' = TRUE
                /\ isError' = NoError
                /\ inv' = Append(inv, Invocation(query, "pending", <<TRUE>>,
                                                 <<NoError>>))
                /\ fetchCalls' = Append(fetchCalls,
                       [inv |-> Len(inv) + 1, query |-> finalQuery.value,
                        format |-> "jdbc"])
    /\ UNCHANGED <<visualizationData, running>>
    /\ UNCHANGED pureVars
    /\ UNCHANGED renderVars

\* getQueryResponse, from setIsLoading(true) to the return after the catch
\* block or after the call of pplServiceRequestor, which calls
\* pplService.fetch before it first awaits
GetQueryResponse(query, startTime, endTime, filterQuery, timestampField) ==
    /\ running = 0
    /\ Len(inv) < MaxInv
    /\ QueryResponseEffect(query, startTime, endTime, filterQuery, timestampField)
    /\ UNCHANGED <<visualizationData, running>>
    /\ UNCHANGED pureVars
    /\ UNCHANGED renderVars

\* The request of invocation i settles: its first reaction is queued
Settle(i, outcome) ==
    /\ running = 0
    /\ i \in 1..Len(inv)
    /\ inv[i].pc = "pending"
    /\ inv' = [inv EXCEPT ![i].outcome = outcome,
                          ![i].pc = IF outcome.kind = "resolve" THEN "then"
                                    ELSE "catch"]
    /\ running' = i
    /\ UNCHANGED <<isLoading, isError, visualizationData, fetchCalls>>
    /\ UNCHANGED pureVars
    /\ UNCHANGED renderVars

\* .then that drops the response of an invocation that is not the latest
ThenHandler_LatestOnly(i) ==
    /\ running = i
    /\ inv[i].pc = "then"
    /\ LET res == inv[i].outcome.value
           err == ErrorMessage("Please check the validity of PPL Filter")
       IN  /\ isError' = IF res = Undefined THEN err ELSE isError
           /\ visualizationData' = IF i = Len(inv) THEN res ELSE visualizationData
           /\ inv' = [inv EXCEPT
                  ![i].setError = IF res = Undefined THEN Append(@, err) ELSE @,
                  ![i].setData = Append(@, res),
                  ![i].pc = "finally"]
    /\ UNCHANGED <<isLoading, fetchCalls, running>>
    /\ UNCHANGED pureVars
    /\ UNCHANGED renderVars

\* .then((res) => { ... })
ThenHandler(i) ==
    /\ running = i
    /\ inv[i].pc = "then"
    /\ LET res == inv[i].outcome.value
           err == ErrorMessage("Please check the validity of PPL Filter")
       IN  /\ isError' = IF res = Undefined THEN err ELSE isError
           /\ visualizationData' = res
           /\ inv' = [inv EXCEPT
                  ![i].setError = IF res = Undefined THEN Append(@, err) ELSE @,
                  ![i].setData = Append(@, res),
                  ![i].pc = "finally"]
    /\ UNCHANGED <<isLoading, fetchCalls, running>>
    /\ UNCHANGED pureVars
    /\ UNCHANGED renderVars

\* JSON.parse(error.body.message) and the reads of .error.reason and
\* .error.details: the error to set, or a throw
ParseFetchError(shape) ==
    CASE shape = "reason" ->
            Return([errorMessage |-> "reason", errorDetails |-> "details"])
      [] shape = "noreason" ->
            Return([errorMessage |-> "Issue in fetching visualization",
                    errorDetails |-> "details"])
      [] shape = "unparseable" -> Throw("SyntaxError")
      [] OTHER -> Throw("TypeError")

\* .catch with a second request issued for the failed one
CatchHandler_Retry(i) ==
    /\ running = i
    /\ inv[i].pc = "catch"
    /\ LET parsed == ParseFetchError(inv[i].outcome.value) IN
       IF parsed.kind = "return"
       THEN /\ isError' = parsed.value
            /\ inv' = [inv EXCEPT ![i].setError = Append(@, parsed.value),
                                  ![i].pc = "finally"]
       ELSE /\ isError' = isError
            /\ inv' = [inv EXCEPT ![i].rejected = TRUE, ![i].pc = "finally"]
    /\ fetchCalls' = Append(fetchCalls, [fetchCalls[Len(fetchCalls)] EXCEPT !.inv = i])
    /\ UNCHANGED <<isLoading, visualizationData, running>>
    /\ UNCHANGED pureVars
    /\ UNCHANGED renderVars

\* .catch((error: Error) => { ... }): a throw inside the handler rejects
\* the promise that .catch returned
CatchHandler(i) ==
    /\ running = i
    /\ inv[i].pc = "catch"
    /\ LET parsed == ParseFetchError(inv[i].outcome.value) IN
       IF parsed.kind = "return"
       THEN /\ isError' = parsed.value
            /\ inv' = [inv EXCEPT ![i].setError = Append(@, parsed.value),
                                  ![i].pc = "finally"]
       ELSE /\ isError' = isError
            /\ inv' = [inv EXCEPT ![i].rejected = TRUE, ![i].pc = "finally"]
    /\ UNCHANGED <<isLoading, visualizationData, fetchCalls, running>>
    /\ UNCHANGED pureVars
    /\ UNCHANGED renderVars

\* .finally that clears the loading flag only when the chain is fulfilled
FinallyHandler_OnSuccessOnly(i) ==
    /\ running = i
    /\ inv[i].pc = "finally"
    /\ isLoading' = IF inv[i].rejected THEN isLoading ELSE FALSE
    /\ inv' = [inv EXCEPT
           ![i].setLoading = IF inv[i].rejected THEN @ ELSE Append(@, FALSE),
           ![i].pc = "await"]
    /\ UNCHANGED <<isError, visualizationData, fetchCalls, running>>
    /\ UNCHANGED pureVars
    /\ UNCHANGED renderVars

\* .finally(() => { setIsLoading(false); }): runs whether the chain is
\* fulfilled or rejected, and passes the settlement on
FinallyHandler(i) ==
    /\ running = i
    /\ inv[i].pc = "finally"
    /\ isLoading' = FALSE
    /\ inv' = [inv EXCEPT ![i].setLoading = Append(@, FALSE), ![i].pc = "await"]
    /\ UNCHANGED <<isError, visualizationData, fetchCalls, running>>
    /\ UNCHANGED pureVars
    /\ UNCHANGED renderVars

\* The await in pplServiceRequestor resumes: a rejected chain rejects the
\* promise pplServiceRequestor returned, which getQueryResponse dropped
AwaitResume(i) ==
    /\ running = i
    /\ inv[i].pc = "await"
    /\ inv' = [inv EXCEPT ![i].escaped = inv[i].rejected, ![i].pc = "done"]
    /\ running' = 0
    /\ UNCHANGED <<isLoading, isError, visualizationData, fetchCalls>>
    /\ UNCHANGED pureVars
    /\ UNCHANGED renderVars

Invs == 1..MaxInv

Next ==
    \/ \E q \in AsyncQueries, st \in AsyncStartTimes, et \in AsyncEndTimes,
          f \in AsyncFilters, tf \in AsyncFields :
          GetQueryResponse(q, st, et, f, tf)
    \/ \E i \in Invs : \E o \in Outcomes(i) : Settle(i, o)
    \/ \E i \in Invs : ThenHandler(i)
    \/ \E i \in Invs : CatchHandler(i)
    \/ \E i \in Invs : FinallyHandler(i)
    \/ \E i \in Invs : AwaitResume(i)

Spec == InitAsync /\ [][Next]_vars

\* Every request settles, and queued promise jobs are run
Fairness ==
    /\ \A i \in Invs : WF_vars(\E o \in Outcomes(i) : Settle(i, o))
    /\ \A i \in Invs : WF_vars(ThenHandler(i))
    /\ \A i \in Invs : WF_vars(CatchHandler(i))
    /\ \A i \in Invs : WF_vars(FinallyHandler(i))
    /\ \A i \in Invs : WF_vars(AwaitResume(i))

FairSpec == Spec /\ Fairness

-----------------------------------------------------------------------------
(* renderSavedVisualization: the saved-object lookup of fetchVisualizationById,
   then getQueryResponse on the stored query *)

\* The ids a panel asks for
VisualizationIds == {"v1", "v2"}

\* The visualization SavedObjectsActions.get finds for an id, as the .then
\* handler of fetchVisualizationById rebuilds it.  "v2" is stored without a
\* name and with a query that has no source clause.
StoredVisualization(id) ==
    IF id = "v1"
    THEN [id |-> id, name |-> "title1", type |-> "line",
          query |-> <<"source", "=", "a", "|", "span(", "a", ",", "1d", ")">>,
          timeField |-> <<"a">>]
    ELSE [id |-> id, name |-> "", type |-> "bar",
          query |-> <<"|", "a">>, timeField |-> <<"a">>]

\* How the lookup can settle: it resolves with the object ("found"), it
\* resolves with an empty observabilityObjectList ("nolist"), or it rejects
LookupOutcomes ==
    { [kind |-> "resolve", value |-> "found"],
      [kind |-> "resolve", value |-> "nolist"],
      [kind |-> "reject", value |-> "error"] }

\* spanParam: string | undefined
RenderSpanParams ==
    { [defined |-> FALSE, value |-> <<>>], [defined |-> TRUE, value |-> <<"1h">>] }

\* The panel's time range starts at a time that resolves
RenderStartTimes == {"now-1d"}

CouldNotLocate(id) == "Could not locate saved visualization id: " \o id

\* One call of renderSavedVisualization: its arguments, where it stands,
\* how the lookup settled, the local savedVisualization, the setter calls
\* it has made itself, and the getQueryResponse invocation it made (0: none)
Rendering(id, startTime, endTime, filterQuery, spanParam) ==
    [id |-> id, startTime |-> startTime, endTime |-> endTime,
     filterQuery |-> filterQuery, spanParam |-> spanParam,
     pc |-> "pending", outcome |-> Unsettled,
     savedVisualization |-> EmptyVisualization,
     calls |-> << <<"setIsLoading", "true">>, <<"setIsError", "{}">> >>,
     inv |-> 0]

\* Lines 241-247, up to the await: the flags are set and the lookup is issued
RenderSavedVisualization(id, startTime, endTime, filterQuery, spanParam) ==
    /\ running = 0
    /\ Len(render) < MaxInv
    /\ isLoading' = TRUE
    /\ isError' = NoError
    /\ render' = Append(render,
                        Rendering(id, startTime, endTime, filterQuery, spanParam))
    /\ UNCHANGED <<visualizationData, inv, fetchCalls, running>>
    /\ UNCHANGED <<visualizationTitle, visualizationType, visualizationMetaData>>
    /\ UNCHANGED pureVars

\* SavedObjectsActions.get settles; the reactions of this call start to run
LookupSettle(r, outcome) ==
    /\ running = 0
    /\ r \in 1..Len(render)
    /\ render[r].pc = "pending"
    /\ render' = [render EXCEPT ![r].outcome = outcome,
                     ![r].pc = IF outcome.kind = "resolve" THEN "then" ELSE "catch"]
    /\ running' = -r
    /\ UNCHANGED <<isLoading, isError, visualizationData, inv, fetchCalls>>
    /\ UNCHANGED <<visualizationTitle, visualizationType, visualizationMetaData>>
    /\ UNCHANGED pureVars

\* .then of fetchVisualizationById: reading observabilityObjectList[0]
\* of an empty list throws, and the chained .catch takes over
LookupThen(r) ==
    /\ running = -r
    /\ render[r].pc = "then"
    /\ IF render[r].outcome.value = "found"
       THEN render' = [render EXCEPT
                         ![r].savedVisualization = StoredVisualization(render[r].id),
                         ![r].pc = "resume"]
       ELSE render' = [render EXCEPT ![r].pc = "catch"]
    /\ UNCHANGED asyncVars
    /\ UNCHANGED <<visualizationTitle, visualizationType, visualizationMetaData>>
    /\ UNCHANGED pureVars

\* .catch of fetchVisualizationById
LookupCatch(r) ==
    /\ running = -r
    /\ render[r].pc = "catch"
    /\ isError' = ErrorMessage(CouldNotLocate(render[r].id))
    /\ render' = [render EXCEPT
                     ![r].calls = Append(@, <<"setIsError", CouldNotLocate(render[r].id)>>),
                     ![r].pc = "resume"]
    /\ UNCHANGED <<isLoading, visualizationData, inv, fetchCalls, running>>
    /\ UNCHANGED <<visualizationTitle, visualizationType, visualizationMetaData>>
    /\ UNCHANGED pureVars

\* The setter calls of lines 254-285, in order
CallsAfterLookup(visualization) ==
    (IF visualization.name # "" THEN << <<"setVisualizationTitle", visualization.name>> >>
                                ELSE <<>>)
    \o (IF visualization.type # "" THEN << <<"setVisualizationType", visualization.type>> >>
                                   ELSE <<>>)
    \o << <<"setVisualizationMetaData", visualization.id>>,
          <<"getQueryResponse", visualization.type>> >>

\* renderSavedVisualization that forgets the error once the lookup has failed
RenderResume_ErrorCleared(r) ==
    /\ running = -r
    /\ render[r].pc = "resume"
    /\ LET visualization == render[r].savedVisualization
           spanParam == render[r].spanParam
           updatedVisualizationQuery ==
               IF spanParam.defined
               THEN updateQuerySpanInterval(visualization.query,
                                            visualization.timeField, spanParam.value)
               ELSE visualization.query
       IN  IF visualization = EmptyVisualization
           THEN /\ isLoading' = FALSE
                /\ isError' = NoError
                /\ render' = [render EXCEPT
                                 ![r].calls = Append(@, <<"setIsLoading", "false">>),
                                 ![r].pc = "done"]
                /\ UNCHANGED <<inv, fetchCalls>>
                /\ UNCHANGED <<visualizationTitle, visualizationType,
                               visualizationMetaData>>
           ELSE /\ visualizationTitle' = IF visualization.name # ""
                                         THEN visualization.name
                                         ELSE visualizationTitle
                /\ visualizationType' = IF visualization.type # ""
                                        THEN visualization.type
                                        ELSE visualizationType
                /\ visualizationMetaData' =
                       [visualization EXCEPT !.query = updatedVisualizationQuery]
                /\ QueryResponseEffect(updatedVisualizationQuery, render[r].startTime,
                                       render[r].endTime, render[r].filterQuery,
                                       visualization.timeField)
                /\ render' = [render EXCEPT
                                 ![r].calls = @ \o CallsAfterLookup(visualization),
                                 ![r].inv = Len(inv) + 1,
                                 ![r].pc = "done"]
    /\ running' = 0
    /\ UNCHANGED visualizationData
    /\ UNCHANGED pureVars

\* Lines 249-285, after the await: an empty visualization ends the call
\* with the loading flag cleared; otherwise title, type and metadata are
\* set and getQueryResponse is called on the (respanned) stored query
RenderResume(r) ==
    /\ running = -r
    /\ render[r].pc = "resume"
    /\ LET visualization == render[r].savedVisualization
           spanParam == render[r].spanParam
           updatedVisualizationQuery ==
               IF spanParam.defined
               THEN updateQuerySpanInterval(visualization.query,
                                            visualization.timeField, spanParam.value)
               ELSE visualization.query
       IN  IF visualization = EmptyVisualization
           THEN /\ isLoading' = FALSE
                /\ render' = [render EXCEPT
                                 ![r].calls = Append(@, <<"setIsLoading", "false">>),
                                 ![r].pc = "done"]
                /\ UNCHANGED <<isError, inv, fetchCalls>>
                /\ UNCHANGED <<visualizationTitle, visualizationType,
                               visualizationMetaData>>
           ELSE /\ visualizationTitle' = IF visualization.name # ""
                                         THEN visualization.name
                                         ELSE visualizationTitle
                /\ visualizationType' = IF visualization.type # ""
                                        THEN visualization.type
                                        ELSE visualizationType
                /\ visualizationMetaData' =
                       [visualization EXCEPT !.query = updatedVisualizationQuery]
                /\ QueryResponseEffect(updatedVisualizationQuery, render[r].startTime,
                                       render[r].endTime, render[r].filterQuery,
                                       visualization.timeField)
                /\ render' = [render EXCEPT
                                 ![r].calls = @ \o CallsAfterLookup(visualization),
                                 ![r].inv = Len(inv) + 1,
                                 ![r].pc = "done"]
    /\ running' = 0
    /\ UNCHANGED visualizationData
    /\ UNCHANGED pureVars

NextRender ==
    \/ \E id \in VisualizationIds, st \in RenderStartTimes, et \in AsyncEndTimes,
          f \in AsyncFilters, sp \in RenderSpanParams :
          RenderSavedVisualization(id, st, et, f, sp)
    \/ \E r \in Invs, o \in LookupOutcomes : LookupSettle(r, o)
    \/ \E r \in Invs : LookupThen(r)
    \/ \E r \in Invs : LookupCatch(r)
    \/ \E r \in Invs : RenderResume(r)
    \/ \E i \in Invs : \E o \in Outcomes(i) : Settle(i, o)
    \/ \E i \in Invs : ThenHandler(i)
    \/ \E i \in Invs : CatchHandler(i)
    \/ \E i \in Invs : FinallyHandler(i)
    \/ \E i \in Invs : AwaitResume(i)

InitRender ==
    /\ fn = "renderSavedVisualization"
    /\ args = <<>>
    /\ ret = None
    /\ toasts = <<>>
    /\ AsyncIdle
    /\ RenderIdle

SpecRender == InitRender /\ [][NextRender]_vars

----------------------------------------------------------------------------
(* Properties of the helpers, checked under SpecPure *)

Returned(f) == fn = f /\ ret.kind = "return"
Called(f) == fn = f /\ ret.kind # "none"

DangerToast(title, side) ==
    [title |-> title, color |-> "danger", text |-> Undefined, side |-> side]

\* C9: for resolved start and end, isDateValid returns true exactly when
\* end >= start and then raises no notification; when end precedes start it
\* returns false and raises exactly one 'Time range entered is invalid'
\* danger notification carrying the caller's side argument.
C9_DateValidIffEndNotBeforeStart ==
    (Returned("isDateValid") /\ args.start.kind = "moment"
                             /\ args.end.kind = "moment") =>
        /\ ret.value = TRUE <=> args.end.v >= args.start.v
        /\ ret.value = TRUE => toasts = <<>>
        /\ ret.value = FALSE =>
              toasts = <<DangerToast("Time range entered is invalid", args.side)>>

\* an end before its start was rejected, the toast raised on the left side
C9_Witness ==
    /\ Returned("isDateValid")
    /\ args.start.kind = "moment" /\ args.end.kind = "moment"
    /\ args.end.v < args.start.v
    /\ args.side = "left"
    /\ ret.value = FALSE
    /\ Len(toasts) = 1

Directives(s, field) ==
    { d \in (1..Len(s)) \X (1..Len(s)) \X (1..Len(s)) :
        LET i == d[1]
            c == d[2]
            e == d[3]
        IN  /\ s[i] = "span("
            /\ \E j \in (i + 1)..c :
                 /\ \A p \in (i + 1)..(j - 1) : s[p] = " "
                 /\ j + Len(field) <= c
                 /\ SubSeq(s, j, j + Len(field) - 1) = field
                 /\ \A p \in (j + Len(field))..(c - 1) : s[p] = " "
            /\ s[c] = ","
            /\ e > c
            /\ s[e] = ")"
            /\ \A p \in (c + 1)..(e - 1) : s[p] # ")" }

FirstDirective(s, field) ==
    CHOOSE d \in Directives(s, field) :
        \A o \in Directives(s, field) : d[1] <= o[1]

\* C4: for every query that holds one or more directives
\* span(<timestampField> , <oldInterval>), updateQuerySpanInterval replaces
\* the interval of the first such directive with the new interval and
\* leaves every other character of the query untouched.
C4_OnlyFirstIntervalReplaced ==
    (Returned("updateQuerySpanInterval")
        /\ Directives(args.query, args.timestampField) # {}) =>
        LET d == FirstDirective(args.query, args.timestampField) IN
        ret.value = SubSeq(args.query, 1, d[2]) \o args.spanParam
                    \o SubSeq(args.query, d[3], Len(args.query))

\* C5: for every query that holds no span directive on the given timestamp
\* field, updateQuerySpanInterval returns the query unchanged.
C5_NoDirectiveQueryUnchanged ==
    (Called("updateQuerySpanInterval")
        /\ Directives(args.query, args.timestampField) = {}) =>
        ret = Return(args.query)

\* The text queryAccumulator is to return for a query whose source clause
\* is its first n tokens
Accumulated(q, n, field, formattedStart, formattedEnd, filter) ==
    SubSeq(q, 1, n)
    \o <<" ", "|", " ", "where", " ">> \o field
    \o <<" ", ">=", " ", "'", formattedStart, "'", " ", "and", " ">> \o field
    \o <<" ", "<=", " ", "'", formattedEnd, "'">>
    \o (IF filter = <<>> THEN <<>> ELSE <<" ", "|", " ">> \o filter)
    \o SubSeq(q, n + 1, Len(q))

----------------------------------------------------------------------------
(* Properties of getQueryResponse, checked under Spec and FairSpec *)

\* The calls of pplService.fetch made for invocation i
FetchesOf(i) == {k \in 1..Len(fetchCalls) : fetchCalls[k].inv = i}

\* A step that is an invocation of getQueryResponse with a query in which
\* the source-clause pattern does not match
InvokedWithoutSource ==
    /\ Len(inv') = Len(inv) + 1
    /\ ~PPL_INDEX_REGEX(inv'[Len(inv')].query).matched

\* C2: an invocation of getQueryResponse with a query in which the source
\* clause does not match ends with the error 'Issue in building final
\* query' set, the loading flag false and the visualization data unchanged,
\* and no call of pplService.fetch is ever made for it.
C2_NoSourceClauseAbortsRequest ==
    /\ [][InvokedWithoutSource =>
            /\ isError' = ErrorMessage("Issue in building final query")
            /\ isLoading' = FALSE
            /\ visualizationData' = visualizationData
            /\ fetchCalls' = fetchCalls
            /\ inv'[Len(inv')].pc = "done"]_vars
    /\ [](\A i \in 1..Len(inv) :
            ~PPL_INDEX_REGEX(inv[i].query).matched => FetchesOf(i) = {})

\* after a first invocation stored its rows, a second one without a source
\* clause has set the error and left the rows
C2_Witness ==
    /\ Len(inv) = 2
    /\ inv[2].query = <<"|", "a">>
    /\ inv[2].pc = "done"
    /\ visualizationData = "rows1"
    /\ isError = ErrorMessage("Issue in building final query")
    /\ isLoading = FALSE

\* C3: whenever the request fails, whatever the shape of the failure, the
\* failure is caught, the error state is set to the parsed reason or to
\* 'Issue in fetching visualization', and no rejected promise leaves
\* pplServiceRequestor.
C3_FetchFailureAlwaysSurfaced ==
    \A i \in 1..Len(inv) :
        (inv[i].pc = "done" /\ inv[i].outcome.kind = "reject") =>
            /\ ~inv[i].escaped
            /\ Len(inv[i].setError) = 2
            /\ inv[i].setError[2].errorMessage
                  = IF inv[i].outcome.value = "reason" THEN "reason"
                    ELSE "Issue in fetching visualization"

\* C7: at most one call of pplService.fetch is made for an invocation of
\* getQueryResponse, and a fetch is only ever issued by the step that is
\* such an invocation, never by a later step (no retry).
C7_OneFetchPerInvocationNoRetry ==
    /\ [](\A i \in 1..Len(inv) : Cardinality(FetchesOf(i)) <= 1)
    /\ [][fetchCalls' # fetchCalls =>
            /\ Len(inv') = Len(inv) + 1
            /\ Len(fetchCalls') = Len(fetchCalls) + 1
            /\ fetchCalls'[Len(fetchCalls')].inv = Len(inv')]_vars

\* the request of an invocation was rejected, its reactions have all run,
\* and one fetch was made for it
C7_Witness ==
    /\ Len(inv) >= 1
    /\ inv[1].pc = "done"
    /\ inv[1].outcome.kind = "reject"
    /\ Cardinality(FetchesOf(1)) = 1

\* C10: every invocation of getQueryResponse sets the loading flag to true
\* at its start and eventually sets it to false, whatever the outcome.
C10_LoadingEventuallyCleared ==
    \A i \in Invs :
        /\ [](Len(inv) >= i => inv[i].setLoading[1] = TRUE)
        /\ (Len(inv) >= i) ~> (Len(inv) >= i /\ inv[i].setLoading = <<TRUE, FALSE>>)

\* a request was rejected with an error body the catch handler cannot
\* parse, and the invocation still cleared the loading flag
C10_Witness ==
    /\ Len(inv) >= 1
    /\ inv[1].outcome = [kind |-> "reject", value |-> "unparseable"]
    /\ inv[1].rejected
    /\ inv[1].setLoading = <<TRUE, FALSE>>

\* A step in which the reaction of invocation i standing at `from` runs
Reacts(i, from, to) ==
    /\ i <= Len(inv)
    /\ inv[i].pc = from
    /\ inv'[i].pc = to

\* A step that is an invocation of getQueryResponse ending at `pc`
Invoked(pc) ==
    /\ Len(inv') = Len(inv) + 1
    /\ inv'[Len(inv')].pc = pc

\* C11 as stated: for any interleaving of getQueryResponse invocations that
\* share the setters, the loading flag is true in every state in which some
\* issued request has not yet settled, and the visualization data stored
\* once every invocation has ended is the response of the invocation that
\* was started last.
C11_LoadingWhileUnsettledAndLastStartedWins ==
    /\ (\E i \in 1..Len(inv) : inv[i].pc = "pending") => isLoading
    /\ (/\ Len(inv) >= 1
        /\ \A i \in 1..Len(inv) : inv[i].pc = "done"
        /\ inv[Len(inv)].outcome.kind = "resolve")
       => visualizationData = inv[Len(inv)].outcome.value

\* C11, amended: for any interleaving, the loading flag is set by the
\* invocation that issues a request and is cleared by the next end of any
\* invocation (the .finally of whichever request settles, or the failed
\* query build of a later invocation), and by nothing else; the
\* visualization data is the response of the request that resolved most
\* recently, whichever invocation it belongs to, and nothing else changes it.
C11_LoadingClearedByAnyEndLastResolvedWins ==
    /\ [][Invoked("pending") => isLoading']_vars
    /\ [][(\E i \in Invs : Reacts(i, "finally", "await")) => ~isLoading']_vars
    /\ [][(isLoading /\ ~isLoading') =>
            \/ \E i \in Invs : Reacts(i, "finally", "await")
            \/ Invoked("done")]_vars
    /\ [][\A i \in Invs : Reacts(i, "then", "finally") =>
            visualizationData' = inv[i].outcome.value]_vars
    /\ [][visualizationData' # visualizationData =>
            \E i \in Invs : Reacts(i, "then", "finally")]_vars

\* two invocations overlapped, the request of the second resolved first,
\* and the rows of the first are what is stored, with the loading flag
\* cleared
C11_Witness ==
    /\ Len(inv) = 2
    /\ fetchCalls # <<>> /\ Len(fetchCalls) = 2
    /\ inv[1].pc = "done" /\ inv[2].pc = "done"
    /\ inv[1].outcome = [kind |-> "resolve", value |-> "rows1"]
    /\ inv[2].outcome = [kind |-> "resolve", value |-> "rows2"]
    /\ visualizationData = "rows1"
    /\ ~isLoading


-----------------------------------------------------------------------------
(* Properties of renderSavedVisualization, checked under SpecRender *)

\* The lookup of call r has settled without yielding a visualization
LookupFailed(r) ==
    /\ r <= Len(render)
    /\ render[r].pc # "pending"
    /\ render[r].outcome.value # "found"

\* This step is one of call r: one of its promise reactions, or its resumption
RenderSteps(r) ==
    /\ r <= Len(render)
    /\ running = -r

RenderEnds(r) ==
    /\ RenderSteps(r)
    /\ render[r].pc = "resume"
    /\ render'[r].pc = "done"

\* C12: when the saved-object lookup of a renderSavedVisualization call
\* fails, the call ends with the error state set to 'Could not locate saved
\* visualization id: <id>' and the loading flag false; it makes no call of
\* getQueryResponse and issues no request; none of its steps changes the
\* title, the type, the metadata or the data; and the only setter calls it
\* makes are setIsLoading(true), setIsError({}), setIsError(message) and
\* setIsLoading(false), in that order, so nothing clears the error after
\* the lookup has set it.
C12_LookupFailureIsTerminal ==
    /\ [](\A r \in Invs : (LookupFailed(r) /\ render[r].pc = "done") =>
             /\ render[r].calls =
                    << <<"setIsLoading", "true">>, <<"setIsError", "{}">>,
                       <<"setIsError", CouldNotLocate(render[r].id)>>,
                       <<"setIsLoading", "false">> >>
             /\ render[r].inv = 0
             /\ render[r].savedVisualization = EmptyVisualization)
    /\ [][\A r \in Invs : (RenderEnds(r) /\ LookupFailed(r)) =>
             /\ isError' = ErrorMessage(CouldNotLocate(render[r].id))
             /\ ~isLoading']_vars
    /\ [][\A r \in Invs : (RenderSteps(r) /\ LookupFailed(r)) =>
             /\ fetchCalls' = fetchCalls
             /\ inv' = inv
             /\ visualizationTitle' = visualizationTitle
             /\ visualizationType' = visualizationType
             /\ visualizationMetaData' = visualizationMetaData
             /\ visualizationData' = visualizationData]_vars

\* A first call has rendered "v1" and its request has resolved; a second
\* call, for "v2", has ended after its lookup was rejected
C12_Witness ==
    /\ Len(render) = 2
    /\ render[1].pc = "done" /\ render[1].inv = 1
    /\ Len(inv) = 1 /\ inv[1].pc = "done"
    /\ render[2].pc = "done"
    /\ render[2].id = "v2"
    /\ render[2].outcome = [kind |-> "reject", value |-> "error"]
    /\ isError = ErrorMessage("Could not locate saved visualization id: v2")
    /\ ~isLoading
    /\ Len(fetchCalls) = 1
    /\ visualizationTitle = "title1"
    /\ visualizationType = "line"
    /\ visualizationMetaData.id = "v1"
    /\ visualizationData = "rows1"

====
